---- MODULE Spec2Model ----
(***************************************************************************)
(* The authproxy Terraform provider: the Tenant and Role resource handlers *)
(* (Create, Read, Update, Delete, ImportState), the shared ProviderData    *)
(* built by AuthProxy.Configure, and the remote administration API they    *)
(* talk to.                                                                *)
(*                                                                         *)
(* A handler is an operator from (plan, prior state, provider data, the    *)
(* fate of its one HTTP exchange, the remote's contents) to what it leaves *)
(* behind: resp.State, resp.Diagnostics, the requests it dispatched and    *)
(* the remote's new contents.  An action applies one handler to the stored *)
(* descriptor.                                                             *)
(***************************************************************************)
EXTENDS Integers, Sequences, FiniteSets, TLC

VARIABLES
    providerData,  \* *ProviderData handed to the resources by Configure
    tenants,       \* remote: the set of tenants, [id, name]
    roles,         \* remote: the set of roles, [id, name, tenant, scopes]
    nextId,        \* remote: the next identifier it assigns
    state,         \* the stored TenantResourceModel, or NoState
    roleState,     \* the stored RoleResourceModel, or NoState
    dataState,     \* the stored TenantDataSourceModel, or NoState
    creates,       \* the Tenant Create calls in progress side by side
    diags,         \* resp.Diagnostics of the last operation
    last           \* what the last operation was given, sent and received

vars == <<providerData, tenants, roles, nextId, state, roleState, dataState,
          creates, diags, last>>

---------------------------------------------------------------------------
(* Bounds *)

\* the remote assigns the identifiers "1" .. ToString(MaxId)
MaxId == 3

Names == {"a", "b"}
RoleNames == {"a"}

\* the names a role is renamed to
RoleNewNames == {"a", "r"}

\* the scopes a role is updated to
RoleNewScopes == {<<"read">>, <<"read", "write">>}
Scopes == {"read", "write"}
ImportIds == {"1", "2", "zz"}
Endpoints == {"http://authproxy", ":bad"}
Faults == {"none", "get", "transport", "cancelled", "status", "status2xx",
           "bodyread", "decode", "other"}

\* the scope lists a role is declared with: every ordering of every subset
ScopeSeqs ==
    {sc \in UNION {[1..n -> Scopes] : n \in 0..Cardinality(Scopes)} :
        \A i, j \in 1..Len(sc) : sc[i] = sc[j] => i = j}

---------------------------------------------------------------------------
(* types.String of the plugin framework: a null flag and a value *)

StringNull == [null |-> TRUE, v |-> ""]
StringValue(s) == [null |-> FALSE, v |-> s]
ValueString(x) == IF x.null THEN "" ELSE x.v

\* no stored descriptor (the resource is not in the state)
NoState == <<>>

\* no call in progress
NoCalls == <<>>

StatusOK == 200

---------------------------------------------------------------------------
(* Diagnostics *)

AddError(ds, summary, detail) ==
    Append(ds, [severity |-> "error", summary |-> summary, detail |-> detail])

\* fmt.Sprintf("<msg>, got error: %s", err)
Errorf(msg, err) == msg \o ", got error: " \o err

\* fmt.Sprintf("<msg>, tenantdata: %#v got error: %s", providerData, err)
ErrorfData(msg, pd, err) ==
    msg \o ", tenantdata: {" \o pd.client \o " " \o pd.endpoint \o " "
        \o pd.username \o " " \o pd.password \o "} got error: " \o err

\* the errors of http.NewRequestWithContext, io.ReadAll and json.Unmarshal
NewRequestError == "missing protocol scheme"
ReadAllError == "unexpected EOF"
UnmarshalError == "invalid character"

HasError(ds) == \E i \in 1..Len(ds) : ds[i].severity = "error"

---------------------------------------------------------------------------
(* Shared configuration *)

Configure(endpoint, username, password) ==
    [client |-> "http.DefaultClient", endpoint |-> endpoint,
     username |-> username, password |-> password]

---------------------------------------------------------------------------
(* Requests *)

NoBody == <<>>

\* http.NewRequestWithContext: the URL is the endpoint followed by the path
\* segments; it fails when the URL does not parse.
NewRequestFails(endpoint) == endpoint = ":bad"

\* a request to an endpoint other than the one handed in
NewRequestElsewhere(method, endpoint, path, body) ==
    [method |-> method, endpoint |-> "http://localhost", path |-> path,
     body |-> body, auth |-> NoBody]

NewRequest(method, endpoint, path, body) ==
    [method |-> method, endpoint |-> endpoint, path |-> path, body |-> body,
     auth |-> NoBody]

\* credentials given in the wrong order
SetBasicAuthSwapped(request, username, password) ==
    [request EXCEPT !.auth = [username |-> password, password |-> username]]

SetBasicAuth(request, username, password) ==
    [request EXCEPT !.auth = [username |-> username, password |-> password]]

---------------------------------------------------------------------------
(* The remote administration API (the REST surface the handlers consume) *)

Body(id, name, tenant, scopes) ==
    [id |-> id, name |-> name, tenant |-> tenant, scopes |-> scopes]

\* a JSON object with none of the fields a response struct declares
EmptyBody == Body("", "", "", <<>>)

Reply(status, body, env) ==
    [err |-> FALSE, status |-> status, body |-> body,
     tenants |-> env.tenants, roles |-> env.roles, nextId |-> env.nextId]

HasTenant(ts, n) == \E t \in ts : t.name = n
TenantNamed(ts, n) == CHOOSE t \in ts : t.name = n

HasRole(rs, tn, n) == \E r \in rs : r.tenant = tn /\ r.name = n
RoleNamed(rs, tn, n) == CHOOSE r \in rs : r.tenant = tn /\ r.name = n

\* POST /tenants {tenant} -> {id}
RemoteCreateTenant(body, env) ==
    IF body.tenant = "" \/ HasTenant(env.tenants, body.tenant)
    THEN Reply(409, EmptyBody, env)
    ELSE LET id == ToString(env.nextId)
         IN  Reply(StatusOK, Body(id, "", "", <<>>),
                   [env EXCEPT !.tenants = @ \cup {[id |-> id, name |-> body.tenant]},
                               !.nextId = @ + 1])

\* GET /tenants/{name} -> {id, name}
RemoteReadTenant(name, env) ==
    IF HasTenant(env.tenants, name)
    THEN LET t == TenantNamed(env.tenants, name)
         IN  Reply(StatusOK, Body(t.id, t.name, "", <<>>), env)
    ELSE Reply(404, EmptyBody, env)

\* PATCH /tenants {tenant, new_tenant} -> {id}: a rename keeps the id
RemoteUpdateTenant(body, env) ==
    IF ~HasTenant(env.tenants, body.tenant) THEN Reply(404, EmptyBody, env)
    ELSE IF body.new_tenant = "" THEN Reply(400, EmptyBody, env)
    ELSE IF body.new_tenant # body.tenant /\ HasTenant(env.tenants, body.new_tenant)
    THEN Reply(409, EmptyBody, env)
    ELSE LET t == TenantNamed(env.tenants, body.tenant)
             renamed == [id |-> t.id, name |-> body.new_tenant]
         IN  Reply(StatusOK, Body(t.id, "", "", <<>>),
                   [env EXCEPT
                      !.tenants = (@ \ {t}) \cup {renamed},
                      !.roles = {IF r.tenant = t.name
                                 THEN [r EXCEPT !.tenant = body.new_tenant]
                                 ELSE r : r \in @}])

\* DELETE /tenants/{name} -> {id, name}: the tenant goes, and its roles with it
RemoteDeleteTenant(name, env) ==
    IF HasTenant(env.tenants, name)
    THEN LET t == TenantNamed(env.tenants, name)
         IN  Reply(StatusOK, Body(t.id, t.name, "", <<>>),
                   [env EXCEPT !.tenants = @ \ {t},
                               !.roles = {r \in @ : r.tenant # t.name}])
    ELSE Reply(404, EmptyBody, env)

\* POST /roles {name, tenant, scopes} -> {id}
RemoteCreateRole(body, env) ==
    IF ~HasTenant(env.tenants, body.tenant) THEN Reply(404, EmptyBody, env)
    ELSE IF body.name = "" \/ HasRole(env.roles, body.tenant, body.name)
    THEN Reply(409, EmptyBody, env)
    ELSE LET id == ToString(env.nextId)
         IN  Reply(StatusOK, Body(id, "", "", <<>>),
                   [env EXCEPT
                      !.roles = @ \cup {[id |-> id, name |-> body.name,
                                         tenant |-> body.tenant,
                                         scopes |-> body.scopes]},
                      !.nextId = @ + 1])

\* GET /tenants/{tenant}/roles/{name} -> {id, name, tenant, scopes}
RemoteReadRole(tn, name, env) ==
    IF HasRole(env.roles, tn, name)
    THEN LET r == RoleNamed(env.roles, tn, name)
         IN  Reply(StatusOK, Body(r.id, r.name, r.tenant, r.scopes), env)
    ELSE Reply(404, EmptyBody, env)

\* The routes of the table above.  A path that ends in an empty segment
\* ("/tenants/") is none of them: the remote answers 404, or, when `other`
\* holds, 200 with the body of whatever route it matched there.
Remote(request, other, env) ==
    LET m == request.method
        p == request.path
    IN  IF p[Len(p)] = ""
        THEN IF other THEN Reply(StatusOK, EmptyBody, env)
                      ELSE Reply(404, EmptyBody, env)
        ELSE IF m = "POST" /\ p = <<"tenants">>
        THEN RemoteCreateTenant(request.body, env)
        ELSE IF m = "GET" /\ Len(p) = 2 /\ p[1] = "tenants"
        THEN RemoteReadTenant(p[2], env)
        ELSE IF m = "PATCH" /\ p = <<"tenants">>
        THEN RemoteUpdateTenant(request.body, env)
        ELSE IF m = "DELETE" /\ Len(p) = 2 /\ p[1] = "tenants"
        THEN RemoteDeleteTenant(p[2], env)
        ELSE IF m = "POST" /\ p = <<"roles">>
        THEN RemoteCreateRole(request.body, env)
        ELSE IF m = "GET" /\ Len(p) = 4 /\ p[1] = "tenants" /\ p[3] = "roles"
        THEN RemoteReadRole(p[2], p[4], env)
        ELSE Reply(404, EmptyBody, env)

\* client.Do(request): one round trip.  A transport failure, or the
\* cancellation of the context the request was built with, returns an error
\* and no response; otherwise the remote answers: with a 500 when it is
\* itself failing, with a 201 when it reports success by another 2xx code.
Do(request, fault, env) ==
    IF fault \in {"transport", "cancelled"}
    THEN [Reply(0, EmptyBody, env) EXCEPT !.err = TRUE]
    ELSE IF fault = "status" THEN Reply(500, EmptyBody, env)
    ELSE IF fault = "status2xx" THEN Reply(201, EmptyBody, env)
    ELSE Remote(request, fault = "other", env)

\* the error client.Do returns
DoError(fault) ==
    IF fault = "cancelled" THEN "context canceled" ELSE "connection refused"

\* a handler without the test of resp.Diagnostics.HasError() after Get
GetFailsUnchecked(fault) == FALSE

\* req.Plan.Get, req.State.Get and req.Config.Get fail when the descriptor
\* handed in cannot be converted into the model struct; the error goes to
\* resp.Diagnostics, the pointer to the model stays nil, and the handler
\* tests resp.Diagnostics.HasError()
GetFails(fault) == fault = "get"

GetError ==
    AddError(<<>>, "Value Conversion Error",
             "An unexpected error was encountered trying to build a value")

\* io.ReadAll(res.Body) and json.Unmarshal(resBody, &v) fail when the body
\* cannot be read to its end, or is not the JSON of the response struct
ReadAllFails(fault) == fault = "bodyread"
UnmarshalFails(fault) == fault = "decode"

---------------------------------------------------------------------------
(* What a handler leaves behind *)

\* a handler that sends its request again after a failed exchange
ReturnResent(st, ds, reqs, res, kind) ==
    [state |-> st, diags |-> ds,
     reqs |-> IF kind \in {"transport", "rejected"} THEN reqs \o reqs ELSE reqs,
     res |-> res, kind |-> kind]

\* state: resp.State; diags: resp.Diagnostics; reqs: the requests dispatched;
\* res: the reply of the exchange; kind: the path the handler returned on
Return(st, ds, reqs, res, kind) ==
    [state |-> st, diags |-> ds, reqs |-> reqs, res |-> res, kind |-> kind]

\* a handler without the deferred Close, which closes the body where its
\* success path ends
BodyClosedOnSuccess(kind) == kind = "ok"

\* defer res.Body.Close(), registered as soon as client.Do returned a
\* response: the body is closed when the handler returns, on whatever path
BodyClosed(kind) == kind \in {"rejected", "read", "decode", "ok"}

\* io.ReadAll(res.Body), called first thing in the branch of the other status
\* codes and in the branch of 200: the body is read to its end unless the
\* read fails
BodyDrained(kind, fault) ==
    /\ kind \in {"rejected", "read", "decode", "ok"}
    /\ ~ReadAllFails(fault)

\* no exchange took place
NoReply(env) == Reply(0, EmptyBody, env)

Env == [tenants |-> tenants, roles |-> roles, nextId |-> nextId]

---------------------------------------------------------------------------
(* Tenant resource: wire shapes *)

TenantModel(id, name) == [id |-> id, name |-> name]

\* a create request that leaves the name of its descriptor out
createRequestUnnamed(data) == [tenant |-> ""]

createRequest(data) == [tenant |-> ValueString(data.name)]

createResponse(body) == [ID |-> body.id]

\* mutant: the new name is taken from the old descriptor
updateRequestNoRename(old, data) ==
    [tenant |-> ValueString(old.name), new_tenant |-> ValueString(old.name)]

updateRequest(old, data) ==
    [tenant |-> ValueString(old.name), new_tenant |-> ValueString(data.name)]

\* an update response that takes its id from another field of the body
updateResponseFromName(body) == [ID |-> body.name]

updateResponse(body) == [ID |-> body.id]

\* mutant: the json tags of id and name exchanged
readResponseSwapped(body) == [ID |-> body.name, Name |-> body.id]

readResponse(body) == [ID |-> body.id, Name |-> body.name]

---------------------------------------------------------------------------
(* TenantResource.Create *)

\* the status is not 200: the body is read and logged, nothing is stored
\* a branch for the other status codes that goes on to decode and to set the
\* state
TenantCreateNon200Stores(st, fault) ==
    [state |-> TenantModel(StringValue(""), StringNull), diags |-> <<>>]

TenantCreateNon200(st, fault) ==
    [state |-> st,
     diags |-> IF ReadAllFails(fault)
               THEN AddError(<<>>, "Client Error",
                      Errorf("Unable to handle non 200 status code on tenant creation",
                             ReadAllError))
               ELSE <<>>]

TenantCreate(plan, st, pd, fault, env) ==
    LET data == plan
        marshalled == createRequest(data)
        request == SetBasicAuth(
                       NewRequest("POST", pd.endpoint, <<"tenants">>, marshalled),
                       pd.username, pd.password)
        res == Do(request, fault, env)
        failed(err) == AddError(<<>>, "Client Error", Errorf("Unable to create tenant", err))
        unbuilt == AddError(<<>>, "Client Error",
                            ErrorfData("Unable to create tenant", pd, NewRequestError))
    IN  IF GetFails(fault)
        THEN Return(st, GetError, <<>>, NoReply(env), "get")
        ELSE IF NewRequestFails(pd.endpoint)
        THEN Return(st, unbuilt, <<>>, NoReply(env), "build")
        ELSE IF res.err
        THEN Return(st, failed(DoError(fault)), <<request>>, res, "transport")
        ELSE IF res.status # StatusOK
        THEN LET r == TenantCreateNon200(st, fault)
             IN  Return(r.state, r.diags, <<request>>, res, "rejected")
        ELSE IF ReadAllFails(fault)
        THEN Return(st, failed(ReadAllError), <<request>>, res, "read")
        ELSE IF UnmarshalFails(fault)
        THEN Return(st, failed(UnmarshalError), <<request>>, res, "decode")
        ELSE LET cr == createResponse(res.body)
             IN  Return([data EXCEPT !.id = StringValue(cr.ID)], <<>>,
                        <<request>>, res, "ok")

---------------------------------------------------------------------------
(* TenantResource.Read *)

TenantReadPath(data) == <<"tenants", ValueString(data.name)>>

\* mutant: a rejected read removes the resource from the state
TenantReadNon200Removes(st, fault) == [state |-> NoState, diags |-> <<>>]

TenantReadNon200(st, fault) ==
    [state |-> st,
     diags |-> IF ReadAllFails(fault)
               THEN AddError(<<>>, "Client Error",
                      Errorf("Unable to handle non 200 status code on tenant read",
                             ReadAllError))
               ELSE <<>>]

TenantRead(st, pd, fault, env) ==
    LET data == st
        request == SetBasicAuth(
                       NewRequest("GET", pd.endpoint, TenantReadPath(data), NoBody),
                       pd.username, pd.password)
        res == Do(request, fault, env)
        failed(err) == AddError(<<>>, "Client Error", Errorf("Unable to read tenant", err))
    IN  IF GetFails(fault)
        THEN Return(st, GetError, <<>>, NoReply(env), "get")
        ELSE IF NewRequestFails(pd.endpoint)
        THEN Return(st, failed(NewRequestError), <<>>, NoReply(env), "build")
        ELSE IF res.err
        THEN Return(st, failed(DoError(fault)), <<request>>, res, "transport")
        ELSE IF res.status # StatusOK
        THEN LET r == TenantReadNon200(st, fault)
             IN  Return(r.state, r.diags, <<request>>, res, "rejected")
        ELSE IF ReadAllFails(fault)
        THEN Return(st, failed(ReadAllError), <<request>>, res, "read")
        ELSE IF UnmarshalFails(fault)
        THEN Return(st, failed(UnmarshalError), <<request>>, res, "decode")
        ELSE LET newTenant == readResponse(res.body)
             IN  Return([data EXCEPT !.id = StringValue(newTenant.ID)], <<>>,
                        <<request>>, res, "ok")

---------------------------------------------------------------------------
(* TenantResource.Update *)

\* mutant: a rejected update stores the plan
TenantUpdateNon200Stores(st, data, fault) == [state |-> data, diags |-> <<>>]

TenantUpdateNon200(st, data, fault) ==
    [state |-> st,
     diags |-> IF ReadAllFails(fault)
               THEN AddError(<<>>, "Client Error",
                      Errorf("Unable to handle non 200 status code on tenant update",
                             ReadAllError))
               ELSE <<>>]

TenantUpdate(plan, st, pd, fault, env) ==
    LET data == plan
        old == st
        marshalled == updateRequest(old, data)
        request == SetBasicAuth(
                       NewRequest("PATCH", pd.endpoint, <<"tenants">>, marshalled),
                       pd.username, pd.password)
        res == Do(request, fault, env)
        failed(err) == AddError(<<>>, "Client Error", Errorf("Unable to update tenant", err))
    IN  IF GetFails(fault)
        THEN Return(st, GetError, <<>>, NoReply(env), "get")
        ELSE IF NewRequestFails(pd.endpoint)
        THEN Return(st, failed(NewRequestError), <<>>, NoReply(env), "build")
        ELSE IF res.err
        THEN Return(st, failed(DoError(fault)), <<request>>, res, "transport")
        ELSE IF res.status # StatusOK
        THEN LET r == TenantUpdateNon200(st, data, fault)
             IN  Return(r.state, r.diags, <<request>>, res, "rejected")
        ELSE IF ReadAllFails(fault)
        THEN Return(st, failed(ReadAllError), <<request>>, res, "read")
        ELSE IF UnmarshalFails(fault)
        THEN Return(st, failed(UnmarshalError), <<request>>, res, "decode")
        ELSE LET cr == updateResponse(res.body)
             IN  Return([data EXCEPT !.id = StringValue(cr.ID)], <<>>,
                        <<request>>, res, "ok")

---------------------------------------------------------------------------
(* TenantResource.Delete *)

\* the name field of the TenantResource struct: no method assigns it
TenantResourceName == ""

TenantDeletePath(data) == <<"tenants", TenantResourceName>>

\* mutant: a rejected delete removes the resource from the state
TenantDeleteNon200Removes(st, fault) == [state |-> NoState, diags |-> <<>>]

TenantDeleteNon200(st, fault) ==
    [state |-> st,
     diags |-> IF ReadAllFails(fault)
               THEN AddError(<<>>, "Client Error",
                      Errorf("Unable to handle non 200 status code on tenant deletion",
                             ReadAllError))
               ELSE <<>>]

\* on 200 the decoded id and name go to the handler's own copy of the
\* descriptor, which nothing stores
\* a Delete that sets the state to what it decoded
TenantDeleteOKStores(st, data, newTenant) ==
    [state |-> [data EXCEPT !.id = StringValue(newTenant.ID),
                            !.name = StringValue(newTenant.Name)],
     diags |-> <<>>]

TenantDeleteOK(st, data, newTenant) ==
    [state |-> st, diags |-> <<>>]

TenantDelete(st, pd, fault, env) ==
    LET data == st
        request == SetBasicAuth(
                       NewRequest("DELETE", pd.endpoint, TenantDeletePath(data), NoBody),
                       pd.username, pd.password)
        res == Do(request, fault, env)
        failed(err) == AddError(<<>>, "Client Error", Errorf("Unable to delete tenant", err))
    IN  IF GetFails(fault)
        THEN Return(st, GetError, <<>>, NoReply(env), "get")
        ELSE IF NewRequestFails(pd.endpoint)
        THEN Return(st, failed(NewRequestError), <<>>, NoReply(env), "build")
        ELSE IF res.err
        THEN Return(st, failed(DoError(fault)), <<request>>, res, "transport")
        ELSE IF res.status # StatusOK
        THEN LET r == TenantDeleteNon200(st, fault)
             IN  Return(r.state, r.diags, <<request>>, res, "rejected")
        ELSE IF ReadAllFails(fault)
        THEN Return(st, failed(ReadAllError), <<request>>, res, "read")
        ELSE IF UnmarshalFails(fault)
        THEN Return(st, failed(UnmarshalError), <<request>>, res, "decode")
        ELSE LET r == TenantDeleteOK(st, data, readResponse(res.body))
             IN  Return(r.state, r.diags, <<request>>, res, "ok")

---------------------------------------------------------------------------
(* TenantResource.ImportState: the id is passed through, nothing else is set *)

TenantImportState(id) == TenantModel(StringValue(id), StringNull)

---------------------------------------------------------------------------
(* Role resource: wire shapes *)

\* types.List of strings: a null flag and the elements
ListValue(elems) == [null |-> FALSE, elems |-> elems]

\* data.Scopes.ElementsAs(ctx, &scopes, false) and types.ListValueFrom(ctx,
\* types.StringType, scopes): the elements, one by one, in their order
ElementsAs(list) == [i \in 1..Len(list.elems) |-> list.elems[i]]
ListValueFrom(scopes) == ListValue([i \in 1..Len(scopes) |-> scopes[i]])

RoleModel(id, name, tenant, scopes) ==
    [id |-> id, name |-> name, tenant |-> tenant, scopes |-> scopes]

Reverse(seq) == [i \in 1..Len(seq) |-> seq[Len(seq) + 1 - i]]

\* mutant: the scopes are sent in the opposite order
createRoleRequestReversed(data, scopes) ==
    [name |-> ValueString(data.name), tenant |-> ValueString(data.tenant),
     scopes |-> Reverse(scopes)]

createRoleRequest(data, scopes) ==
    [name |-> ValueString(data.name), tenant |-> ValueString(data.tenant),
     scopes |-> scopes]

createRoleResponse(body) == [ID |-> body.id]

readRoleResponse(body) ==
    [ID |-> body.id, Name |-> body.name, Tenant |-> body.tenant,
     Scopes |-> body.scopes]

---------------------------------------------------------------------------
(* RoleResource.Create *)

RoleCreateNon200(st, fault) ==
    [state |-> st,
     diags |-> IF ReadAllFails(fault)
               THEN AddError(<<>>, "Client Error",
                      Errorf("Unable to handle non 200 status code on role creation",
                             ReadAllError))
               ELSE <<>>]

RoleCreate(plan, st, pd, fault, env) ==
    LET data == plan
        scopes == ElementsAs(data.scopes)
        marshalled == createRoleRequest(data, scopes)
        request == SetBasicAuth(
                       NewRequest("POST", pd.endpoint, <<"roles">>, marshalled),
                       pd.username, pd.password)
        res == Do(request, fault, env)
        failed(err) == AddError(<<>>, "Client Error", Errorf("Unable to create role", err))
    IN  IF GetFails(fault)
        THEN Return(st, GetError, <<>>, NoReply(env), "panic")
        ELSE IF NewRequestFails(pd.endpoint)
        THEN Return(st, failed(NewRequestError), <<>>, NoReply(env), "build")
        ELSE IF res.err
        THEN Return(st, failed(DoError(fault)), <<request>>, res, "transport")
        ELSE IF res.status # StatusOK
        THEN LET r == RoleCreateNon200(st, fault)
             IN  Return(r.state, r.diags, <<request>>, res, "rejected")
        ELSE IF ReadAllFails(fault)
        THEN Return(st, failed(ReadAllError), <<request>>, res, "read")
        ELSE IF UnmarshalFails(fault)
        THEN Return(st, failed(UnmarshalError), <<request>>, res, "decode")
        ELSE LET cr == createRoleResponse(res.body)
             IN  Return([data EXCEPT !.id = StringValue(cr.ID)], <<>>,
                        <<request>>, res, "ok")

---------------------------------------------------------------------------
(* RoleResource.Read *)

RoleReadPath(data) ==
    <<"tenants", ValueString(data.tenant), "roles", ValueString(data.name)>>

RoleReadNon200(st, fault) ==
    [state |-> st,
     diags |-> IF ReadAllFails(fault)
               THEN AddError(<<>>, "Client Error",
                      Errorf("Unable to handle non 200 status code on role read",
                             ReadAllError))
               ELSE <<>>]

\* on 200: the id is the response's, the scopes are rebuilt from the scopes
\* the prior state held
\* a Read that refreshes the scopes from the response
RoleReadOKFromBody(data, scopes, newRole) ==
    [data EXCEPT !.id = StringValue(newRole.ID),
                 !.scopes = ListValueFrom(newRole.Scopes)]

RoleReadOK(data, scopes, newRole) ==
    [data EXCEPT !.id = StringValue(newRole.ID),
                 !.scopes = ListValueFrom(scopes)]

RoleRead(st, pd, fault, env) ==
    LET data == st
        scopes == ElementsAs(data.scopes)
        request == SetBasicAuth(
                       NewRequest("GET", pd.endpoint, RoleReadPath(data), NoBody),
                       pd.username, pd.password)
        res == Do(request, fault, env)
        failed(err) == AddError(<<>>, "Client Error", Errorf("Unable to read role", err))
    IN  IF GetFails(fault)
        THEN Return(st, GetError, <<>>, NoReply(env), "panic")
        ELSE IF NewRequestFails(pd.endpoint)
        THEN Return(st, failed(NewRequestError), <<>>, NoReply(env), "build")
        ELSE IF res.err
        THEN Return(st, failed(DoError(fault)), <<request>>, res, "transport")
        ELSE IF res.status # StatusOK
        THEN LET r == RoleReadNon200(st, fault)
             IN  Return(r.state, r.diags, <<request>>, res, "rejected")
        ELSE IF ReadAllFails(fault)
        THEN Return(st, failed(ReadAllError), <<request>>, res, "read")
        ELSE IF UnmarshalFails(fault)
        THEN Return(st, failed(UnmarshalError), <<request>>, res, "decode")
        ELSE Return(RoleReadOK(data, scopes, readRoleResponse(res.body)), <<>>,
                    <<request>>, res, "ok")

---------------------------------------------------------------------------
(* TenantDataSource *)

TenantDataSourceModel(id, name) == [id |-> id, name |-> name]

\* TenantDataSource.Configure: the data source keeps its own copy of the
\* fields of the *ProviderData
DataSourceConfigure(pd) ==
    [client |-> pd.client, endpoint |-> pd.endpoint,
     username |-> pd.username, password |-> pd.password]

\* a response struct whose json tags are exchanged
tenantDataReadResponseSwapped(body) == [ID |-> body.name, Name |-> body.id]

tenantDataReadResponse(body) == [ID |-> body.id, Name |-> body.name]

TenantDataReadPath(data) == <<"tenants", ValueString(data.name)>>

\* a branch for the other status codes that goes on to set the state
TenantDataReadNon200Stores(st, fault) ==
    [state |-> TenantDataSourceModel(StringValue(""), StringNull), diags |-> <<>>]

TenantDataReadNon200(st, fault) ==
    [state |-> st,
     diags |-> IF ReadAllFails(fault)
               THEN AddError(<<>>, "Client Error",
                      Errorf("Unable to handle non 200 status code on tenant read",
                             ReadAllError))
               ELSE <<>>]

\* config: req.Config; st: resp.State as the handler finds it; d: the
\* configured data source
TenantDataRead(config, st, d, fault, env) ==
    LET data == config
        request == SetBasicAuth(
                       NewRequest("GET", d.endpoint, TenantDataReadPath(data), NoBody),
                       d.username, d.password)
        res == Do(request, fault, env)
        failed(err) == AddError(<<>>, "Client Error", Errorf("Unable to read tenant", err))
    IN  IF GetFails(fault)
        THEN Return(st, GetError, <<>>, NoReply(env), "get")
        ELSE IF NewRequestFails(d.endpoint)
        THEN Return(st, failed(NewRequestError), <<>>, NoReply(env), "build")
        ELSE IF res.err
        THEN Return(st, failed(DoError(fault)), <<request>>, res, "transport")
        ELSE IF res.status # StatusOK
        THEN LET r == TenantDataReadNon200(st, fault)
             IN  Return(r.state, r.diags, <<request>>, res, "rejected")
        ELSE IF ReadAllFails(fault)
        THEN Return(st, failed(ReadAllError), <<request>>, res, "read")
        ELSE IF UnmarshalFails(fault)
        THEN Return(st, failed(UnmarshalError), <<request>>, res, "decode")
        ELSE LET newTenant == tenantDataReadResponse(res.body)
             IN  Return([data EXCEPT !.id = StringValue(newTenant.ID)], <<>>,
                        <<request>>, res, "ok")

---------------------------------------------------------------------------
(* RoleResource.Update *)

RoleUpdateNon200(st, data, fault) ==
    [state |-> st,
     diags |-> IF ReadAllFails(fault)
               THEN AddError(<<>>, "Client Error",
                      Errorf("Unable to handle non 200 status code on tenant update",
                             ReadAllError))
               ELSE <<>>]

\* the request of a Role Update: the tenant rename request, filled with the
\* old and the new name of the role
RoleUpdateRequest(pd, old, data) ==
    NewRequest("PATCH", pd.endpoint, <<"tenants">>, updateRequest(old, data))

RoleUpdate(plan, st, pd, fault, env) ==
    LET data == plan
        old == st
        request == SetBasicAuth(RoleUpdateRequest(pd, old, data),
                                pd.username, pd.password)
        res == Do(request, fault, env)
        failed(err) == AddError(<<>>, "Client Error", Errorf("Unable to update tenant", err))
    IN  IF GetFails(fault)
        THEN Return(st, GetError, <<>>, NoReply(env), "get")
        ELSE IF NewRequestFails(pd.endpoint)
        THEN Return(st, failed(NewRequestError), <<>>, NoReply(env), "build")
        ELSE IF res.err
        THEN Return(st, failed(DoError(fault)), <<request>>, res, "transport")
        ELSE IF res.status # StatusOK
        THEN LET r == RoleUpdateNon200(st, data, fault)
             IN  Return(r.state, r.diags, <<request>>, res, "rejected")
        ELSE IF ReadAllFails(fault)
        THEN Return(st, failed(ReadAllError), <<request>>, res, "read")
        ELSE IF UnmarshalFails(fault)
        THEN Return(st, failed(UnmarshalError), <<request>>, res, "decode")
        ELSE LET cr == updateResponse(res.body)
             IN  Return([data EXCEPT !.id = StringValue(cr.ID)], <<>>,
                        <<request>>, res, "ok")

---------------------------------------------------------------------------
(* RoleResource.Delete *)

\* r.name in RoleResource.Delete: RoleResource declares no such field; it is
\* the name field of TenantResource, which nothing assigns
RoleResourceName == TenantResourceName

RoleDeletePath(data) == <<"tenants", RoleResourceName>>

RoleDeleteNon200(st, fault) ==
    [state |-> st,
     diags |-> IF ReadAllFails(fault)
               THEN AddError(<<>>, "Client Error",
                      Errorf("Unable to handle non 200 status code on tenant deletion",
                             ReadAllError))
               ELSE <<>>]

\* on 200 the decoded id and name go to the handler's own copy
RoleDeleteOK(st, data, newTenant) ==
    [state |-> st, diags |-> <<>>]

RoleDelete(st, pd, fault, env) ==
    LET data == st
        request == SetBasicAuth(
                       NewRequest("DELETE", pd.endpoint, RoleDeletePath(data), NoBody),
                       pd.username, pd.password)
        res == Do(request, fault, env)
        failed(err) == AddError(<<>>, "Client Error", Errorf("Unable to delete tenant", err))
    IN  IF GetFails(fault)
        THEN Return(st, GetError, <<>>, NoReply(env), "get")
        ELSE IF NewRequestFails(pd.endpoint)
        THEN Return(st, failed(NewRequestError), <<>>, NoReply(env), "build")
        ELSE IF res.err
        THEN Return(st, failed(DoError(fault)), <<request>>, res, "transport")
        ELSE IF res.status # StatusOK
        THEN LET r == RoleDeleteNon200(st, fault)
             IN  Return(r.state, r.diags, <<request>>, res, "rejected")
        ELSE IF ReadAllFails(fault)
        THEN Return(st, failed(ReadAllError), <<request>>, res, "read")
        ELSE IF UnmarshalFails(fault)
        THEN Return(st, failed(UnmarshalError), <<request>>, res, "decode")
        ELSE LET r == RoleDeleteOK(st, data, readResponse(res.body))
             IN  Return(r.state, r.diags, <<request>>, res, "ok")

---------------------------------------------------------------------------
(* The state machine *)

Record(op, fault, pre, plan, r) ==
    [op |-> op, fault |-> fault, kind |-> r.kind, status |-> r.res.status,
     pre |-> pre, plan |-> plan, reqs |-> r.reqs, body |-> r.res.body,
     preTenants |-> tenants,
     prev |-> [op |-> last.op, kind |-> last.kind]]

\* an operation of the caller that dispatches nothing
Local(op) ==
    Record(op, "none", NoState, NoState,
           Return(NoState, <<>>, <<>>, NoReply(Env), "ok"))

Init ==
    /\ providerData \in {Configure(e, "admin", "secret") : e \in Endpoints}
    /\ tenants = {}
    /\ roles = {}
    /\ nextId = 1
    /\ state = NoState
    /\ roleState = NoState
    /\ dataState = NoState
    /\ creates = NoCalls
    /\ diags = <<>>
    /\ last = [op |-> "Configure", fault |-> "none", kind |-> "ok", status |-> 0,
               pre |-> NoState, plan |-> NoState, reqs |-> <<>>,
               body |-> EmptyBody, preTenants |-> {},
               prev |-> [op |-> "", kind |-> ""]]

\* the fault "other" is one of a request whose path ends in an empty segment
Possible(fault, r) ==
    fault = "other" =>
        /\ r.reqs # <<>>
        /\ r.reqs[1].path[Len(r.reqs[1].path)] = ""

\* the remote's part of a handler's result
RemoteBecomes(r) ==
    /\ tenants' = r.res.tenants
    /\ roles' = r.res.roles
    /\ nextId' = r.res.nextId

TenantCreateOp ==
    /\ state = NoState
    /\ nextId <= MaxId
    /\ \E n \in Names, fault \in Faults :
         LET plan == TenantModel(StringNull, StringValue(n))
             r == TenantCreate(plan, state, providerData, fault, Env)
         IN  /\ Possible(fault, r)
             /\ state' = r.state
             /\ diags' = r.diags
             /\ RemoteBecomes(r)
             /\ last' = Record("TenantCreate", fault, state, plan, r)
    /\ UNCHANGED <<providerData, dataState, creates, roleState>>

TenantReadOp ==
    /\ state # NoState
    /\ \E fault \in Faults :
         LET r == TenantRead(state, providerData, fault, Env)
         IN  /\ Possible(fault, r)
             /\ state' = r.state
             /\ diags' = r.diags
             /\ RemoteBecomes(r)
             /\ last' = Record("TenantRead", fault, state, NoState, r)
    /\ UNCHANGED <<providerData, dataState, creates, roleState>>

\* the plan of an update differs from the state in its name; its id is the
\* state's (UseStateForUnknown)
TenantUpdateOp ==
    /\ state # NoState
    /\ \E n \in Names \ {ValueString(state.name)}, fault \in Faults :
         LET plan == TenantModel(state.id, StringValue(n))
             r == TenantUpdate(plan, state, providerData, fault, Env)
         IN  /\ Possible(fault, r)
             /\ state' = r.state
             /\ diags' = r.diags
             /\ RemoteBecomes(r)
             /\ last' = Record("TenantUpdate", fault, state, plan, r)
    /\ UNCHANGED <<providerData, dataState, creates, roleState>>

TenantDeleteOp ==
    /\ state # NoState
    /\ \E fault \in Faults :
         LET r == TenantDelete(state, providerData, fault, Env)
         IN  /\ Possible(fault, r)
             /\ state' = r.state
             /\ diags' = r.diags
             /\ RemoteBecomes(r)
             /\ last' = Record("TenantDelete", fault, state, NoState, r)
    /\ UNCHANGED <<providerData, dataState, creates, roleState>>

TenantImportOp ==
    /\ state = NoState
    /\ \E id \in ImportIds :
         /\ state' = TenantImportState(id)
         /\ last' = Local("TenantImport")
    /\ diags' = <<>>
    /\ UNCHANGED <<providerData, dataState, creates, tenants, roles, nextId, roleState>>

\* the caller discards the local descriptor
TenantDiscardOp ==
    /\ state # NoState
    /\ state' = NoState
    /\ last' = Local("TenantDiscard")
    /\ diags' = <<>>
    /\ UNCHANGED <<providerData, dataState, creates, tenants, roles, nextId, roleState>>

RoleCreateOp ==
    /\ roleState = NoState
    /\ nextId <= MaxId
    /\ \E n \in RoleNames, tn \in Names, sc \in ScopeSeqs, fault \in Faults :
         LET plan == RoleModel(StringNull, StringValue(n), StringValue(tn),
                               ListValue(sc))
             r == RoleCreate(plan, roleState, providerData, fault, Env)
         IN  /\ Possible(fault, r)
             /\ roleState' = r.state
             /\ diags' = r.diags
             /\ RemoteBecomes(r)
             /\ last' = Record("RoleCreate", fault, roleState, plan, r)
    /\ UNCHANGED <<providerData, dataState, creates, state>>

RoleReadOp ==
    /\ roleState # NoState
    /\ \E fault \in Faults :
         LET r == RoleRead(roleState, providerData, fault, Env)
         IN  /\ Possible(fault, r)
             /\ roleState' = r.state
             /\ diags' = r.diags
             /\ RemoteBecomes(r)
             /\ last' = Record("RoleRead", fault, roleState, NoState, r)
    /\ UNCHANGED <<providerData, dataState, creates, state>>

\* the plan of an update differs from the state in the name or the scopes; its
\* id and its tenant are the state's
RoleUpdateOp ==
    /\ roleState # NoState
    /\ \E n \in RoleNewNames, sc \in RoleNewScopes, fault \in Faults :
         LET plan == RoleModel(roleState.id, StringValue(n), roleState.tenant,
                               ListValue(sc))
             r == RoleUpdate(plan, roleState, providerData, fault, Env)
         IN  /\ plan # roleState
             /\ Possible(fault, r)
             /\ roleState' = r.state
             /\ diags' = r.diags
             /\ RemoteBecomes(r)
             /\ last' = Record("RoleUpdate", fault, roleState, plan, r)
    /\ UNCHANGED <<providerData, dataState, creates, state>>

RoleDeleteOp ==
    /\ roleState # NoState
    /\ \E fault \in Faults :
         LET r == RoleDelete(roleState, providerData, fault, Env)
         IN  /\ Possible(fault, r)
             /\ roleState' = r.state
             /\ diags' = r.diags
             /\ RemoteBecomes(r)
             /\ last' = Record("RoleDelete", fault, roleState, NoState, r)
    /\ UNCHANGED <<providerData, dataState, creates, state>>

\* the caller discards the local descriptor
RoleDiscardOp ==
    /\ roleState # NoState
    /\ roleState' = NoState
    /\ last' = Local("RoleDiscard")
    /\ diags' = <<>>
    /\ UNCHANGED <<providerData, dataState, creates, tenants, roles, nextId, state>>

Next ==
    \/ TenantCreateOp
    \/ TenantReadOp
    \/ TenantUpdateOp
    \/ TenantDeleteOp
    \/ TenantImportOp
    \/ TenantDiscardOp

Spec == Init /\ [][Next]_vars

\* The Role resource, on a remote where tenant "a" was created earlier and
\* tenant "b" was not.
RoleInit ==
    /\ providerData \in {Configure(e, "admin", "secret") : e \in Endpoints}
    /\ tenants = {[id |-> "1", name |-> "a"]}
    /\ roles = {}
    /\ nextId = 2
    /\ state = NoState
    /\ roleState = NoState
    /\ dataState = NoState
    /\ creates = NoCalls
    /\ diags = <<>>
    /\ last = [op |-> "Configure", fault |-> "none", kind |-> "ok", status |-> 0,
               pre |-> NoState, plan |-> NoState, reqs |-> <<>>,
               body |-> EmptyBody, preTenants |-> {},
               prev |-> [op |-> "", kind |-> ""]]

RoleNext ==
    \/ RoleCreateOp
    \/ RoleReadOp
    \/ RoleDiscardOp

RoleSpec == RoleInit /\ [][RoleNext]_vars

\* the state after an earlier run created role "a" of tenant "a": the remote
\* holds the role, the descriptor is stored
RoleChangeInit ==
    /\ providerData \in {Configure(e, "admin", "secret") : e \in Endpoints}
    /\ tenants = {[id |-> "1", name |-> "a"]}
    /\ roles = {[id |-> "2", name |-> "a", tenant |-> "a", scopes |-> <<"read">>]}
    /\ nextId = 3
    /\ state = NoState
    /\ roleState = RoleModel(StringValue("2"), StringValue("a"), StringValue("a"),
                             ListValue(<<"read">>))
    /\ dataState = NoState
    /\ creates = NoCalls
    /\ diags = <<>>
    /\ last = [op |-> "Configure", fault |-> "none", kind |-> "ok", status |-> 0,
               pre |-> NoState, plan |-> NoState, reqs |-> <<>>,
               body |-> EmptyBody, preTenants |-> {},
               prev |-> [op |-> "", kind |-> ""]]

\* the data source is read for a configured name; the state it had is gone
\* when the handler starts
TenantDataReadOp ==
    /\ \E n \in Names, fault \in Faults :
         LET config == TenantDataSourceModel(StringNull, StringValue(n))
             r == TenantDataRead(config, NoState, DataSourceConfigure(providerData),
                                 fault, Env)
         IN  /\ Possible(fault, r)
             /\ dataState' = r.state
             /\ diags' = r.diags
             /\ RemoteBecomes(r)
             /\ last' = Record("TenantDataRead", fault, NoState, config, r)
    /\ UNCHANGED <<providerData, state, roleState, creates>>

\* tenants are created and renamed through the resource and looked up
\* through the data source
DataNext ==
    \/ TenantCreateOp
    \/ TenantUpdateOp
    \/ TenantDiscardOp
    \/ TenantDataReadOp

DataSpec == Init /\ [][DataNext]_vars

\* a stored role descriptor that is read, updated, deleted and discarded
RoleChangeNext ==
    \/ RoleReadOp
    \/ RoleUpdateOp
    \/ RoleDeleteOp
    \/ RoleDiscardOp

RoleChangeSpec == RoleChangeInit /\ [][RoleChangeNext]_vars

---------------------------------------------------------------------------
(* One invocation of any operation of the Tenant resource, the Role resource
   and the tenant data source.  It starts from a state that earlier runs
   leave behind: an empty remote, a remote with tenant "a", or one with
   tenant "a" and its role "a"; a Tenant descriptor that is absent, created
   or imported; a Role descriptor that is absent, created, or created and
   then updated to other scopes. *)

Remotes == {"empty", "tenant", "role"}

CallInit ==
    /\ providerData \in {Configure(e, "admin", "secret") : e \in Endpoints}
    /\ \E remote \in Remotes :
         /\ tenants = IF remote = "empty" THEN {} ELSE {[id |-> "1", name |-> "a"]}
         /\ roles = IF remote = "role"
                    THEN {[id |-> "2", name |-> "a", tenant |-> "a",
                           scopes |-> <<"read">>]}
                    ELSE {}
         /\ nextId = Cardinality(tenants) + Cardinality(roles) + 1
         /\ state \in {NoState, TenantModel(StringValue("1"), StringNull)}
                      \cup (IF remote = "empty" THEN {}
                            ELSE {TenantModel(StringValue("1"), StringValue("a"))})
         /\ roleState \in {NoState}
                      \cup (IF remote = "role"
                            THEN {RoleModel(StringValue("2"), StringValue("a"),
                                            StringValue("a"), ListValue(<<"read">>)),
                                  RoleModel(StringValue("1"), StringValue("a"),
                                            StringValue("a"),
                                            ListValue(<<"read", "write">>))}
                            ELSE {})
    /\ dataState = NoState
    /\ creates = NoCalls
    /\ diags = <<>>
    /\ last = [op |-> "Configure", fault |-> "none", kind |-> "ok", status |-> 0,
               pre |-> NoState, plan |-> NoState, reqs |-> <<>>,
               body |-> EmptyBody, preTenants |-> {},
               prev |-> [op |-> "", kind |-> ""]]

\* no operation was invoked yet
Fresh == last.op = "Configure"

CallNext ==
    \/ Fresh /\ TenantCreateOp
    \/ Fresh /\ TenantReadOp
    \/ Fresh /\ TenantUpdateOp
    \/ Fresh /\ TenantDeleteOp
    \/ Fresh /\ TenantImportOp
    \/ Fresh /\ RoleCreateOp
    \/ Fresh /\ RoleReadOp
    \/ Fresh /\ RoleUpdateOp
    \/ Fresh /\ RoleDeleteOp
    \/ Fresh /\ TenantDataReadOp

CallSpec == CallInit /\ [][CallNext]_vars

---------------------------------------------------------------------------
(* Two Tenant Create calls side by side.  A call reads its plan and the
   shared *ProviderData and dispatches its request; the remote serves the
   requests one at a time, in either order; the call then handles the reply
   and sets its state. *)

Calls == {"first", "second"}

Idle == [pc |-> "idle", plan |-> NoState, fault |-> "none", r |-> NoState,
         state |-> NoState, diags |-> <<>>]

ConcInit ==
    /\ providerData \in {Configure(e, "admin", "secret") : e \in Endpoints}
    /\ tenants = {}
    /\ roles = {}
    /\ nextId = 1
    /\ state = NoState
    /\ roleState = NoState
    /\ dataState = NoState
    /\ creates = [c \in Calls |-> Idle]
    /\ diags = <<>>
    /\ last = [op |-> "Configure", fault |-> "none", kind |-> "ok", status |-> 0,
               pre |-> NoState, plan |-> NoState, reqs |-> <<>>,
               body |-> EmptyBody, preTenants |-> {},
               prev |-> [op |-> "", kind |-> ""]]

\* req.Plan.Get ... client.Do: the request leaves, or it cannot be built and
\* the call returns
CreateSend(c) ==
    /\ creates[c].pc = "idle"
    /\ \E n \in Names, fault \in {"none", "get"} :
         LET plan == TenantModel(StringNull, StringValue(n))
             built == TenantCreate(plan, NoState, providerData, fault, Env)
         IN  creates' = [creates EXCEPT ![c] =
                 IF built.reqs = <<>>
                 THEN [pc |-> "done", plan |-> plan, fault |-> fault, r |-> built,
                       state |-> built.state, diags |-> built.diags]
                 ELSE [@ EXCEPT !.pc = "sent", !.plan = plan]]
    /\ UNCHANGED <<providerData, tenants, roles, nextId, state, roleState,
                   dataState, diags, last>>

\* the remote serves the request of call c
RemoteAnswer(c) ==
    /\ creates[c].pc = "sent"
    /\ \E fault \in Faults \ {"get"} :
         LET r == TenantCreate(creates[c].plan, NoState, providerData, fault, Env)
         IN  /\ Possible(fault, r)
             /\ RemoteBecomes(r)
             /\ creates' = [creates EXCEPT ![c] =
                    [@ EXCEPT !.pc = "answered", !.fault = fault, !.r = r]]
    /\ UNCHANGED <<providerData, state, roleState, dataState, diags, last>>

\* client.Do returns ... resp.State.Set
CreateReceive(c) ==
    /\ creates[c].pc = "answered"
    /\ creates' = [creates EXCEPT ![c] =
           [@ EXCEPT !.pc = "done", !.state = creates[c].r.state,
                     !.diags = creates[c].r.diags]]
    /\ UNCHANGED <<providerData, tenants, roles, nextId, state, roleState,
                   dataState, diags, last>>

ConcNext ==
    \E c \in Calls :
        \/ CreateSend(c)
        \/ RemoteAnswer(c)
        \/ CreateReceive(c)

ConcSpec == ConcInit /\ [][ConcNext]_vars

---------------------------------------------------------------------------
(* Properties *)

CreatedOK == [op |-> "TenantCreate", kind |-> "ok"]
RoleCreatedOK == [op |-> "RoleCreate", kind |-> "ok"]

\* the remote answered, and not with 200
Rejected == last.status # 0 /\ last.status # StatusOK

\* what a Read of the descriptor d would now be answered, nothing failing
ReadNow(d) == TenantRead(d, providerData, "none", Env)

\* C1: a Tenant Create the remote accepts stores the id of the response and
\* the declared name, and a Read that follows it is answered 200 and stores
\* that same id and name.
C1_CreateReadRoundTrip ==
    /\ (last.op = "TenantCreate" /\ last.kind = "ok") =>
          /\ state.id = StringValue(last.body.id)
          /\ state.name = last.plan.name
          /\ [id |-> last.body.id, name |-> ValueString(last.plan.name)] \in tenants
    /\ (/\ last.op = "TenantRead"
        /\ last.prev = CreatedOK
        /\ last.fault = "none" \/ last.kind = "ok") =>
          /\ last.kind = "ok"
          /\ state.id = last.pre.id
          /\ state.name = last.pre.name

C1_Witness ==
    /\ last.op = "TenantRead"
    /\ last.kind = "ok"
    /\ last.prev = CreatedOK
    /\ state.name = StringValue("b")

\* C2: after a Tenant Delete of the descriptor of an existing tenant has
\* returned, a Read of the same name is answered with a status other than 200.
C2_DeleteThenReadRejected ==
    (/\ last.op = "TenantDelete"
     /\ last.fault = "none"
     /\ ~NewRequestFails(providerData.endpoint)
     /\ HasTenant(last.preTenants, ValueString(last.pre.name))) =>
        ReadNow(last.pre).res.status # StatusOK

\* C3: after an accepted Tenant Update from name a to name b, a Read of b
\* yields the id the tenant had under a, and a Read of a is answered with a
\* status other than 200.
C3_RenameKeepsId ==
    (last.op = "TenantUpdate" /\ last.kind = "ok") =>
        LET a == ValueString(last.pre.name)
            b == ValueString(last.plan.name)
            readA == ReadNow(last.pre)
            readB == ReadNow(state)
        IN  /\ a # b
            /\ HasTenant(last.preTenants, a)
            /\ ~HasTenant(last.preTenants, b)
            /\ state.name = StringValue(b)
            /\ state.id = StringValue(TenantNamed(last.preTenants, a).id)
            /\ readB.kind = "ok"
            /\ readB.state.id = StringValue(TenantNamed(last.preTenants, a).id)
            /\ readA.kind = "rejected"
            /\ readA.res.status # StatusOK

C3_Witness ==
    /\ last.op = "TenantUpdate"
    /\ last.kind = "ok"
    /\ ValueString(last.pre.name) = "a"
    /\ state.name = StringValue("b")

\* C4: an Import of the id of an existing tenant followed by a Read leaves a
\* stored descriptor that holds the remote's name of that tenant.
C4_ImportThenReadPopulates ==
    (/\ last.op = "TenantRead"
     /\ last.prev.op = "TenantImport"
     /\ last.fault = "none"
     /\ ~NewRequestFails(providerData.endpoint)
     /\ \E t \in tenants : last.pre.id = StringValue(t.id)) =>
        \E t \in tenants :
            /\ state.id = StringValue(t.id)
            /\ state.name = StringValue(t.name)

\* C5: a Role Create with scopes s that the remote accepts stores s, and the
\* Read that follows receives s from the remote and stores s, element by
\* element in the same order.
C5_ScopesRoundTrip ==
    /\ (last.op = "RoleCreate" /\ last.kind = "ok") =>
          /\ roleState.scopes = last.plan.scopes
          /\ \E r \in roles : /\ r.id = last.body.id
                              /\ r.scopes = last.plan.scopes.elems
    /\ (/\ last.op = "RoleRead"
        /\ last.prev = RoleCreatedOK
        /\ last.fault = "none" \/ last.kind = "ok") =>
          /\ last.kind = "ok"
          /\ Len(last.body.scopes) = Len(last.pre.scopes.elems)
          /\ \A i \in 1..Len(last.body.scopes) :
                /\ last.body.scopes[i] = last.pre.scopes.elems[i]
                /\ roleState.scopes.elems[i] = last.body.scopes[i]
          /\ roleState.scopes = last.pre.scopes

C5_Witness ==
    /\ last.op = "RoleRead"
    /\ last.kind = "ok"
    /\ last.prev = RoleCreatedOK
    /\ roleState.scopes = ListValue(<<"write", "read">>)

\* C6: a Tenant Create for a name that exists on the remote is rejected,
\* reports an error to the caller and stores nothing.
C6_CreateExistingRejected ==
    (/\ last.op = "TenantCreate"
     /\ last.fault = "none"
     /\ HasTenant(last.preTenants, ValueString(last.plan.name))) =>
        /\ Rejected
        /\ HasError(diags)
        /\ state = NoState

\* C7: an operation that ends in a request build error, a transport error,
\* a status other than 200 or a decode error returns an error diagnostic.
C7_FailuresReported ==
    (/\ last.op \in {"TenantCreate", "TenantRead", "TenantUpdate", "TenantDelete"}
     /\ last.kind \in {"build", "transport", "rejected", "decode"}) =>
        HasError(diags)

\* C8: a Tenant Read answered with a status other than 200 leaves the stored
\* descriptor as it was, id included.
C8_RejectedReadKeepsState ==
    (last.op = "TenantRead" /\ Rejected) =>
        /\ state = last.pre
        /\ state.id = last.pre.id
        /\ state.name = last.pre.name

C8_Witness ==
    /\ last.op = "TenantRead"
    /\ Rejected
    /\ ~last.pre.id.null
    /\ ~last.pre.name.null

\* the request of a Tenant Update, and what it stores when it succeeds
UpdateSendsAndStores ==
    /\ last.kind \notin {"get", "build"} =>
          /\ Len(last.reqs) = 1
          /\ last.reqs[1].method = "PATCH"
          /\ last.reqs[1].path = <<"tenants">>
          /\ last.reqs[1].body = [tenant |-> ValueString(last.pre.name),
                                  new_tenant |-> ValueString(last.plan.name)]
    /\ last.kind = "ok" =>
          state = [last.plan EXCEPT !.id = StringValue(last.body.id)]

\* C9, as stated: a Tenant Update sends PATCH /tenants {tenant: old.name,
\* new_tenant: desired.name}, stores desired with the decoded id on 200, and
\* on any failure leaves the desired descriptor in place.
C9_FailedUpdateLeavesDesired ==
    last.op = "TenantUpdate" =>
        /\ UpdateSendsAndStores
        /\ last.kind # "ok" => state = last.plan

\* C9, amended: ... and on any failure leaves the stored descriptor as it was
\* before the Update, which is the old one.
C9_FailedUpdateLeavesOld ==
    last.op = "TenantUpdate" =>
        /\ UpdateSendsAndStores
        /\ last.kind # "ok" => state = last.pre /\ state # last.plan

C9_Witness ==
    /\ last.op = "TenantUpdate"
    /\ last.kind = "rejected"
    /\ last.status = 409
    /\ state.name = StringValue("b")

\* what the caller sees of a Delete: the stored descriptor, and whether an
\* error was reported
Outcome(st, ds) == <<st, HasError(ds)>>

DeleteSucceeded ==
    LET r == TenantDeleteOK(last.pre, last.pre, readResponse(last.body))
    IN  Outcome(r.state, r.diags)

IsTenantRename(request) ==
    /\ request.method = "PATCH"
    /\ request.path = <<"tenants">>
    /\ DOMAIN request.body = {"tenant", "new_tenant"}

\* C11: a Role Update never sends the Tenant rename request, and it leaves
\* the name and the id of every Tenant of the remote as they were.
C11_RoleUpdateIsRoleSpecific ==
    last.op = "RoleUpdate" =>
        /\ \A i \in 1..Len(last.reqs) : ~IsTenantRename(last.reqs[i])
        /\ tenants = last.preTenants

\* what the code does instead: every request of a Role Update is the Tenant
\* rename request
C11_RoleUpdateRenamesTenant ==
    last.op = "RoleUpdate" =>
        \A i \in 1..Len(last.reqs) : IsTenantRename(last.reqs[i])

\* both calls have returned, they were given different names, and the remote
\* answered both without a fault
BothReturned ==
    /\ \A c \in Calls : creates[c].pc = "done" /\ creates[c].fault = "none"
    /\ creates["first"].plan.name # creates["second"].plan.name
    /\ ~NewRequestFails(providerData.endpoint)

\* C12: two Tenant Create calls for two different names, interleaved in any
\* order under the same shared configuration, both succeed and store two
\* different ids.
C12_ConcurrentCreatesSucceed ==
    BothReturned =>
        /\ \A c \in Calls :
             /\ creates[c].r.kind = "ok"
             /\ ~HasError(creates[c].diags)
             /\ creates[c].state # NoState
             /\ ~creates[c].state.id.null
             /\ creates[c].state.name = creates[c].plan.name
        /\ creates["first"].state.id # creates["second"].state.id

\* the second call was served first
C12_Witness ==
    /\ BothReturned
    /\ creates["second"].state.id = StringValue("1")
    /\ creates["first"].state.id = StringValue("2")

\* a Tenant Read or Update that ended on its success path, of a descriptor
\* whose id was set
IdSetThenRefreshed ==
    /\ last.op \in {"TenantRead", "TenantUpdate"}
    /\ last.kind = "ok"
    /\ ~last.pre.id.null

TenantOps == {"TenantCreate", "TenantRead", "TenantUpdate", "TenantDelete"}
RoleOps == {"RoleCreate", "RoleRead", "RoleUpdate", "RoleDelete"}
DataOps == {"TenantDataRead"}
Handlers == TenantOps \cup RoleOps \cup DataOps

\* the descriptor the last operation worked on, as it is stored now
Stored ==
    IF last.op \in RoleOps THEN roleState
    ELSE IF last.op \in DataOps THEN dataState
    ELSE state

\* the last operation received a response
Answered == last.op \in Handlers /\ last.status # 0

\* json.Unmarshal was called on the body of the response
Decoded == last.kind \in {"ok", "decode"}

\* the stored descriptor carries the id of the body of the response
WrittenFromBody ==
    /\ Stored # NoState
    /\ Stored.id = StringValue(last.body.id)

\* C14, as stated: in every operation the body is decoded and the stored
\* descriptor is written if the status code is exactly 200, and only then.
C14_DecodedAndWrittenIff200 ==
    Answered =>
        /\ last.status = StatusOK => (Decoded /\ WrittenFromBody)
        /\ last.status # StatusOK => (~Decoded /\ Stored = last.pre)

\* C14, amended: for every status code other than 200, another 2xx code
\* included, the body is not decoded and the stored descriptor is left as it
\* was; on 200 the body is decoded when it can be read, and the descriptor is
\* written when it is decoded without error by an operation other than
\* Delete, and left as it was otherwise.
C14_Only200Decoded ==
    Answered =>
        /\ last.status # StatusOK => (~Decoded /\ Stored = last.pre)
        /\ Decoded <=> (last.status = StatusOK /\ ~ReadAllFails(last.fault))
        /\ IF last.kind = "ok" /\ last.op \notin {"TenantDelete", "RoleDelete"}
           THEN WrittenFromBody
           ELSE Stored = last.pre

\* a Create answered 201: nothing is decoded, nothing is stored
C14_Witness ==
    /\ Answered
    /\ last.op = "TenantCreate"
    /\ last.status = 201
    /\ ~Decoded
    /\ Stored = NoState
    /\ last.pre = NoState

\* the Basic authentication of the shared configuration
Credentials ==
    [username |-> providerData.username, password |-> providerData.password]

\* C15: every request that an operation of the Tenant resource, the Role
\* resource or the tenant data source dispatches carries, when it leaves, the
\* Basic authentication built from the configured username and password.
C15_RequestsCarryBasicAuth ==
    last.op \in Handlers =>
        \A i \in 1..Len(last.reqs) : last.reqs[i].auth = Credentials

\* a Role Delete dispatched its request
C15_Witness ==
    /\ last.op = "RoleDelete"
    /\ Len(last.reqs) = 1
    /\ last.reqs[1].method = "DELETE"
    /\ last.reqs[1].auth = [username |-> "admin", password |-> "secret"]

\* C16: every invocation of an operation dispatches at most one request,
\* whatever its outcome: after a transport error, a status other than 200 or a
\* decode error exactly one request was dispatched, and none follows it.
C16_AtMostOneRequest ==
    last.op \in Handlers =>
        /\ Len(last.reqs) <= 1
        /\ last.kind \in {"transport", "rejected", "read", "decode"} =>
              Len(last.reqs) = 1
        /\ last.kind = "build" => Len(last.reqs) = 0

\* a Tenant Update whose request was answered with a status other than 200
C16_Witness ==
    /\ last.op = "TenantUpdate"
    /\ last.kind = "rejected"
    /\ last.status = 500
    /\ Len(last.reqs) = 1

\* C17: Tenant Read requests GET /tenants/n and Tenant Delete requests
\* DELETE /tenants/n, n being the name held in the descriptor they are given.
C17_AddressedByName ==
    (last.op \in {"TenantRead", "TenantDelete"} /\ last.reqs # <<>>) =>
        /\ last.reqs[1].method = (IF last.op = "TenantRead" THEN "GET" ELSE "DELETE")
        /\ last.reqs[1].path = <<"tenants", ValueString(last.pre.name)>>

\* the part of C17 that the code keeps: Read addresses the name of its
\* descriptor
C17_ReadAddressedByName ==
    (last.op = "TenantRead" /\ last.reqs # <<>>) =>
        /\ last.reqs[1].method = "GET"
        /\ last.reqs[1].path = <<"tenants", ValueString(last.pre.name)>>

\* the request names the tenant and the name of the role descriptor d
IdentifiesRole(request, d) ==
    /\ \E i \in 1..Len(request.path) : request.path[i] = ValueString(d.tenant)
    /\ \E i \in 1..Len(request.path) : request.path[i] = ValueString(d.name)

\* C18: the request of a Role Delete identifies the role by the tenant and
\* the name of the descriptor it is given; a Role Delete that succeeds removes
\* that role from the remote; no Role Delete removes a Tenant.
C18_RoleDeleteScoped ==
    (last.op = "RoleDelete" /\ last.reqs # <<>>) =>
        /\ IdentifiesRole(last.reqs[1], last.pre)
        /\ last.kind = "ok" =>
              ~HasRole(roles, ValueString(last.pre.tenant), ValueString(last.pre.name))
        /\ tenants = last.preTenants

\* the part of C18 that the code keeps: a Role Delete removes no Tenant
C18_RoleDeleteKeepsTenants ==
    last.op = "RoleDelete" => tenants = last.preTenants

\* the last Tenant operation, invoked again on what it was given, with
\* another outcome of the exchange; a failed client.Do leaves the remote as
\* it was
TenantRerun(fault) ==
    CASE last.op = "TenantCreate" ->
           TenantCreate(last.plan, last.pre, providerData, fault, Env)
      [] last.op = "TenantRead" ->
           TenantRead(last.pre, providerData, fault, Env)
      [] last.op = "TenantUpdate" ->
           TenantUpdate(last.plan, last.pre, providerData, fault, Env)
      [] last.op = "TenantDelete" ->
           TenantDelete(last.pre, providerData, fault, Env)

\* the kind of each diagnostic: its severity and its summary
DiagKinds(ds) ==
    [i \in 1..Len(ds) |-> [severity |-> ds[i].severity, summary |-> ds[i].summary]]

\* the context was cancelled while the request of a Tenant operation was in
\* flight
CancelledInFlight ==
    /\ last.op \in TenantOps
    /\ last.fault = "cancelled"
    /\ last.reqs # <<>>

\* C19: an operation whose context is cancelled while its request is in
\* flight reports a failure whose kind differs from the kind it reports for
\* a transport error.
C19_CancellationDistinguished ==
    CancelledInFlight =>
        /\ HasError(diags)
        /\ DiagKinds(diags) # DiagKinds(TenantRerun("transport").diags)

\* what the code does: the cancelled call is aborted and reported, by the
\* diagnostic of a transport error that names the cancellation in its detail
C19_CancellationReportedAsTransport ==
    CancelledInFlight =>
        /\ HasError(diags)
        /\ state = last.pre
        /\ tenants = last.preTenants
        /\ DiagKinds(diags) = DiagKinds(TenantRerun("transport").diags)
        /\ diags # TenantRerun("transport").diags

\* the id a stored descriptor holds
StoredId(st) == IF st = NoState THEN StringNull ELSE st.id

\* the paths on which an operation fails
FailureKinds == {"build", "transport", "rejected", "read", "decode"}

RejectedAndUnread ==
    /\ last.op \in Handlers
    /\ last.kind = "rejected"
    /\ ReadAllFails(last.fault)

\* C21: an operation that receives a status other than 200 and then fails to
\* read the body returns two diagnostics, one for the rejected status and,
\* added to it, one for the body-read failure.
C21_BothFailuresRecorded ==
    RejectedAndUnread =>
        /\ Len(diags) >= 2
        /\ HasError(diags)

\* what the code does: the body-read failure is the only diagnostic
C21_OnlyReadFailureRecorded ==
    RejectedAndUnread =>
        /\ Len(diags) = 1
        /\ diags[1].summary = "Client Error"

\* the request of every call that has dispatched one was built from the
\* shared configuration as it is now
BuiltFromConfiguration ==
    \A c \in Calls :
        creates[c].r # NoState =>
            \A i \in 1..Len(creates[c].r.reqs) :
                /\ creates[c].r.reqs[i].endpoint = providerData.endpoint
                /\ creates[c].r.reqs[i].auth = Credentials

\* a step of one call leaves what the other call holds as it was
NothingElseShared ==
    \A c, d \in Calls :
        (c # d /\ creates'[c] # creates[c]) => creates'[d] = creates[d]

\* C22: no step of any call writes the shared configuration, a step of one
\* call changes nothing that another call holds, and the configuration that
\* each call read is the one built at setup, in every interleaving.
C22_ConfigurationNeverWritten ==
    /\ [][providerData' = providerData /\ NothingElseShared]_vars
    /\ [](BuiltFromConfiguration)

\* both calls dispatched a request, the second before the first was answered
C22_Witness ==
    /\ creates["first"].pc = "answered"
    /\ creates["second"].pc = "done"
    /\ creates["first"].r.reqs # <<>>
    /\ creates["second"].r.reqs # <<>>
    /\ creates["first"].r.reqs[1].auth = creates["second"].r.reqs[1].auth
    /\ creates["first"].r.reqs[1].endpoint = providerData.endpoint

\* C23: whenever an operation obtained a response, the body is closed by the
\* time the operation returns, and it has been read to its end on the path of
\* status 200, on the path of the other status codes and on the path that
\* returns on a decode error; it is left unread only where the read fails.
C23_BodyDrainedAndClosed ==
    Answered =>
        /\ BodyClosed(last.kind)
        /\ ~ReadAllFails(last.fault) => BodyDrained(last.kind, last.fault)
        /\ last.kind \in {"ok", "decode"} => BodyDrained(last.kind, last.fault)

\* the data source returned on a decode error
C23_Witness ==
    /\ Answered
    /\ last.op = "TenantDataRead"
    /\ last.kind = "decode"
    /\ last.status = StatusOK
    /\ BodyClosed(last.kind)
    /\ BodyDrained(last.kind, last.fault)

\* a Read that ended on its success path
ReadSucceeded ==
    /\ last.op \in {"TenantRead", "RoleRead"}
    /\ last.kind = "ok"

RoleUpdatedScopes ==
    /\ last.op = "RoleUpdate"
    /\ last.kind = "ok"
    /\ roleState = RoleModel(StringValue("1"), StringValue("a"), StringValue("a"),
                             ListValue(<<"read", "write">>))
    /\ roles = {[id |-> "2", name |-> "a", tenant |-> "a", scopes |-> <<"read">>]}
    /\ tenants = {[id |-> "1", name |-> "a"]}

\* the descriptor handed to the last operation could not be read, so that
\* the diagnostics held an error before anything else was done
GetFailed == last.op \in Handlers /\ last.fault = "get"

ResourceRead(i, n, fault) ==
    TenantRead(TenantModel(i, StringValue(n)), providerData, fault, Env)

DataSourceRead(n, fault) ==
    TenantDataRead(TenantDataSourceModel(StringNull, StringValue(n)), NoState,
                   DataSourceConfigure(providerData), fault, Env)

\* C26: for every name and every outcome, the data source Read and the
\* Tenant resource Read dispatch the same request with the same credentials,
\* end on the same path with the same number of diagnostics, store the same
\* id and name on 200, and leave what is stored as it was on every failure.
C26_DataReadLikeResourceRead ==
    \A n \in Names, i \in {StringNull, StringValue("1")}, fault \in Faults :
        LET t == ResourceRead(i, n, fault)
            d == DataSourceRead(n, fault)
        IN  /\ d.reqs = t.reqs
            /\ d.res = t.res
            /\ d.kind = t.kind
            /\ Len(d.diags) = Len(t.diags)
            /\ IF t.kind = "ok"
               THEN /\ d.state.id = t.state.id
                    /\ d.state.name = t.state.name
               ELSE /\ t.state = TenantModel(i, StringValue(n))
                    /\ d.state = NoState

\* the data source found the tenant that the resource created, and a Read of
\* the resource finds the same id
C26_Witness ==
    /\ last.op = "TenantDataRead"
    /\ last.kind = "ok"
    /\ state # NoState
    /\ dataState.name = state.name
    /\ dataState.id = state.id
    /\ ResourceRead(StringNull, ValueString(state.name), "none").state.id = dataState.id
    /\ ResourceRead(StringNull, ValueString(state.name), "none").reqs = last.reqs

\* C27: Tenant Delete and Role Delete write the stored descriptor on no
\* path: after a Delete, answered 200 and decoded or not, the stored
\* descriptor is the one the Delete was given.
C27_DeleteNeverWrites ==
    last.op \in {"TenantDelete", "RoleDelete"} =>
        /\ Stored = last.pre
        /\ Stored # NoState

\* a Tenant Delete answered 200 decoded a body whose id and name are not
\* those of its descriptor, and stored nothing
C27_Witness ==
    /\ last.op = "TenantDelete"
    /\ last.kind = "ok"
    /\ last.status = StatusOK
    /\ StringValue(last.body.id) # last.pre.id
    /\ state = last.pre

====
